---- MODULE Spec2Model ----
(***************************************************************************)
(* A model of the catalog-and-order API (app/api/orders.py,                *)
(* app/api/products.py, app/models.py): the two collections `products` and *)
(* `orders`, the request handlers create_product, list_products,           *)
(* create_order and get_user_orders, and the aggregation pipeline of       *)
(* get_user_orders, stage by stage.                                        *)
(*                                                                         *)
(* Strings are sequences of one-character strings, so that str.strip(),    *)
(* str(int), ObjectId(str) and str(ObjectId) are computed and not assumed. *)
(* Prices are positive integers (the code's floats, restricted to values   *)
(* whose products and sums are exact).                                     *)
(***************************************************************************)
EXTENDS Integers, Sequences, FiniteSets, Bags, TLC

VARIABLES
    products,   \* the products collection: _id -> [name, price, sizes]
    nextPid,    \* the last product _id handed out
    orders,     \* the orders collection, in insertion order: <<[_id, userId, items]>>
    pending,    \* create_order calls between their two store calls
    resp,       \* the response of the last request served (or the last store write)
    pager       \* a client reading one user's orders page by page

vars == <<products, nextPid, orders, pending, resp, pager>>

(***************************************************************************)
(* Bounds of the model.                                                    *)
(***************************************************************************)
MaxProducts == 2
MaxOrders == 2
MaxInflight == 1
MaxLimit == 2
MaxOffset == 1

(***************************************************************************)
(* Strings.                                                                *)
(***************************************************************************)
None == << >>
Some(x) == <<x>>

IsSpace(c) == c \in {" ", "\t", "\n"}

RECURSIVE LStrip(_)
LStrip(s) ==
    IF s = << >> THEN << >>
    ELSE IF IsSpace(Head(s)) THEN LStrip(Tail(s)) ELSE s

RECURSIVE RStrip(_)
RStrip(s) ==
    IF s = << >> THEN << >>
    ELSE IF IsSpace(s[Len(s)]) THEN RStrip(SubSeq(s, 1, Len(s) - 1)) ELSE s

\* str.strip()
Strip(s) == RStrip(LStrip(s))

DecDigits == <<"0", "1", "2", "3", "4", "5", "6", "7", "8", "9">>

RECURSIVE NatStr(_)
NatStr(n) ==
    IF n < 10 THEN <<DecDigits[n + 1]>>
    ELSE NatStr(n \div 10) \o <<DecDigits[(n % 10) + 1]>>

\* str(int)
IntStr(n) == IF n < 0 THEN <<"-">> \o NatStr(0 - n) ELSE NatStr(n)

HexDigits == <<"0", "1", "2", "3", "4", "5", "6", "7", "8", "9",
               "a", "b", "c", "d", "e", "f">>
HexUpper == <<"0", "1", "2", "3", "4", "5", "6", "7", "8", "9",
              "A", "B", "C", "D", "E", "F">>

\* An ObjectId is 12 bytes, written as 24 hexadecimal digits.
ObjectIdHexLen == 24

InvalidId == -1

IsHex(c) == \E i \in 1..16 : HexDigits[i] = c \/ HexUpper[i] = c
HexVal(c) == (CHOOSE i \in 1..16 : HexDigits[i] = c \/ HexUpper[i] = c) - 1

RECURSIVE HexPad(_, _)
HexPad(n, w) ==
    IF w = 0 THEN << >>
    ELSE HexPad(n \div 16, w - 1) \o <<HexDigits[(n % 16) + 1]>>

\* str(ObjectId)
ObjectIdStr(oid) == HexPad(oid, ObjectIdHexLen)

RECURSIVE HexNum(_)
HexNum(s) ==
    IF s = << >> THEN 0
    ELSE 16 * HexNum(SubSeq(s, 1, Len(s) - 1)) + HexVal(s[Len(s)])

\* ObjectId(str): InvalidId stands for the raised bson.errors.InvalidId
ObjectId(s) ==
    IF Len(s) = ObjectIdHexLen /\ \A i \in 1..Len(s) : IsHex(s[i])
    THEN HexNum(s)
    ELSE InvalidId

(***************************************************************************)
(* Request bodies the clients send.                                        *)
(***************************************************************************)
ProductIds == 1..MaxProducts

P(i) == ObjectIdStr(i)

Item(pid, q) == [productId |-> pid, qty |-> q]

\* a well-formed id that no product ever gets, and a malformed one
NoSuchProduct == ObjectIdStr(0)
Malformed == <<"x", "y", "z">>

UserA == <<"a">>
UserPaddedA == <<" ", "a">>
UserBlank == <<" ">>

OrderInputs ==
    { [userId |-> UserA, items |-> <<Item(P(1), 2), Item(P(2), 1)>>],
      [userId |-> UserA, items |-> <<Item(P(2), 3)>>],
      [userId |-> UserPaddedA, items |-> <<Item(P(1), 1)>>],
      [userId |-> UserA, items |-> <<Item(P(1), 1), Item(P(1), 2)>>],
      [userId |-> UserA, items |-> << >>],
      [userId |-> UserA, items |-> <<Item(P(1), 0)>>],
      [userId |-> UserA, items |-> <<Item(Malformed, 1)>>],
      [userId |-> UserA, items |-> <<Item(NoSuchProduct, 1)>>],
      [userId |-> UserBlank, items |-> <<Item(P(1), 1)>>] }

Size(s, q) == [size |-> s, quantity |-> q]

ProductInputs ==
    { [name |-> <<"A", "b">>, price |-> 2, sizes |-> <<Size(<<"M">>, 0), Size(<<"S">>, 1)>>],
      [name |-> <<"c">>, price |-> 0, sizes |-> <<Size(<<"S">>, 1)>>],
      [name |-> <<"c">>, price |-> 2, sizes |-> << >>],
      [name |-> <<"c">>, price |-> 2, sizes |-> <<Size(<<"S">>, -1)>>],
      [name |-> << >>, price |-> 2, sizes |-> <<Size(<<"S">>, 1)>>] }

PriceInputs == {2, 3}

Idle == [state |-> "idle"]

(***************************************************************************)
(* models.py: the request models' field constraints (a violation is        *)
(* FastAPI's 422).                                                         *)
(***************************************************************************)
ProductCreateValid(product) ==
    /\ Len(product.name) >= 1
    /\ product.price > 0
    /\ Len(product.sizes) >= 1
    /\ \A i \in 1..Len(product.sizes) : product.sizes[i].quantity >= 0

OrderCreateValid(order) ==
    /\ Len(order.items) >= 1
    /\ \A i \in 1..Len(order.items) : order.items[i].qty > 0

Failure(op, status, error) ==
    [op |-> op, status |-> status, error |-> error]

(***************************************************************************)
(* products.py: create_product                                             *)
(***************************************************************************)
\* the handler's own checks (lines 26-34), after the request model's
ProductRuleError(product) ==
    \/ product.price <= 0
    \/ product.sizes = << >>
    \/ \E i \in 1..Len(product.sizes) : product.sizes[i].quantity < 0

\* storeOk: whether insert_one succeeds
create_product(product, storeOk) ==
    /\ nextPid < MaxProducts
    /\ UNCHANGED <<orders, pending>>
    /\ IF ~ProductCreateValid(product)
       THEN /\ resp' = Failure("create_product", 422, "ValidationError")
            /\ UNCHANGED <<products, nextPid, pager>>
       ELSE IF ProductRuleError(product)
       THEN /\ resp' = Failure("create_product", 400, "ValidationError")
            /\ UNCHANGED <<products, nextPid, pager>>
       ELSE IF ~storeOk
       THEN /\ resp' = Failure("create_product", 500, "InternalError")
            /\ UNCHANGED <<products, nextPid, pager>>
       ELSE /\ nextPid' = nextPid + 1
            /\ products' = [p \in DOMAIN products \cup {nextPid + 1} |->
                              IF p = nextPid + 1 THEN product ELSE products[p]]
            /\ resp' = [op |-> "create_product", status |-> 201,
                        error |-> "none", id |-> ObjectIdStr(nextPid + 1)]
            /\ pager' = Idle

(***************************************************************************)
(* Writes made to the products collection from outside the API: the        *)
(* catalog is not protected from deletion or repricing.                    *)
(***************************************************************************)
DeleteProduct(pid) ==
    /\ pid \in DOMAIN products
    /\ products' = [p \in DOMAIN products \ {pid} |-> products[p]]
    /\ resp' = [op |-> "delete_product", status |-> 0, error |-> "none"]
    /\ pager' = Idle
    /\ UNCHANGED <<nextPid, orders, pending>>

SetPrice(pid, price) ==
    /\ pid \in DOMAIN products
    /\ products[pid].price # price
    /\ products' = [products EXCEPT ![pid].price = price]
    /\ resp' = [op |-> "set_price", status |-> 0, error |-> "none"]
    /\ pager' = Idle
    /\ UNCHANGED <<nextPid, orders, pending>>

(***************************************************************************)
(* orders.py: create_order.  The handler awaits the store twice            *)
(* (count_documents, then insert_one); other requests run between the two. *)
(***************************************************************************)
\* lines 34-46: the ids converted by ObjectId(), in item order
ProductIdList(order) ==
    [i \in 1..Len(order.items) |-> ObjectId(order.items[i].productId)]

\* lines 34-46: order.model_dump() with every productId converted
OrderDict(order) ==
    [userId |-> order.userId,
     items |-> [i \in 1..Len(order.items) |->
                  [productId |-> ObjectId(order.items[i].productId),
                   qty |-> order.items[i].qty]]]

\* lines 27-46: the handler's own checks, after the request model's
OrderRuleError(order) ==
    \/ order.items = << >>
    \/ Strip(order.userId) = << >>
    \/ \E i \in 1..Len(order.items) :
          \/ order.items[i].qty <= 0
          \/ ObjectId(order.items[i].productId) = InvalidId

\* line 49: count_documents({"_id": {"$in": product_ids}})
CountExisting(product_ids) ==
    Cardinality({p \in DOMAIN products :
                    \E i \in 1..Len(product_ids) : product_ids[i] = p})

\* line 50
AllProductsExist(product_ids) == CountExisting(product_ids) = Len(product_ids)

CreateOrderFailure(order, status, error, stage) ==
    [op |-> "create_order", req |-> order, status |-> status, error |-> error,
     stage |-> stage]

\* lines 25-51: where the handler stands once count_documents has answered: an
\* HTTPException raised, or the order checked and its insert still to come.
\* storeOk: whether count_documents succeeds
Checked(order, storeOk) ==
    IF ~OrderCreateValid(order)
    THEN CreateOrderFailure(order, 422, "ValidationError", "validate")
    ELSE IF OrderRuleError(order)
    THEN CreateOrderFailure(order, 400, "ValidationError", "validate")
    ELSE IF ~storeOk
    THEN CreateOrderFailure(order, 500, "InternalError", "check")
    ELSE IF ~AllProductsExist(ProductIdList(order))
    THEN CreateOrderFailure(order, 400, "ReferentialError", "check")
    ELSE [op |-> "create_order", req |-> order, status |-> 0, error |-> "none",
          stage |-> "checked"]

\* line 53: the document insert_one stores, with the _id it is given
Inserted(order) ==
    [_id |-> Len(orders) + 1, userId |-> OrderDict(order).userId,
     items |-> OrderDict(order).items]

\* line 54
Created(order) ==
    [op |-> "create_order", req |-> order, status |-> 201, error |-> "none",
     stage |-> "insert", id |-> ObjectIdStr(Len(orders) + 1)]

\* create_order_check with the order inserted before its products are counted
create_order_check_insert_first(order, storeOk) ==
    /\ Len(orders) + BagCardinality(pending) < MaxOrders
    /\ BagCardinality(pending) < MaxInflight
    /\ resp' = Checked(order, storeOk)
    /\ pending' = IF resp'.stage = "checked" THEN pending (+) SetToBag({order})
                  ELSE pending
    /\ orders' = IF resp'.error = "ReferentialError"
                 THEN Append(orders, Inserted(order)) ELSE orders
    /\ UNCHANGED <<products, nextPid, pager>>

\* lines 25-51: the handler up to its first store call's answer
create_order_check(order, storeOk) ==
    /\ Len(orders) + BagCardinality(pending) < MaxOrders
    /\ BagCardinality(pending) < MaxInflight
    /\ resp' = Checked(order, storeOk)
    /\ pending' = IF resp'.stage = "checked" THEN pending (+) SetToBag({order})
                  ELSE pending
    /\ UNCHANGED <<products, nextPid, orders, pager>>

\* lines 53-59: the rest of the handler; storeOk: whether insert_one succeeds
create_order_insert(order, storeOk) ==
    /\ order \in BagToSet(pending)
    /\ pending' = pending (-) SetToBag({order})
    /\ UNCHANGED <<products, nextPid>>
    /\ IF storeOk
       THEN /\ orders' = Append(orders, Inserted(order))
            /\ resp' = Created(order)
            /\ pager' = Idle
       ELSE /\ resp' = CreateOrderFailure(order, 500, "InternalError", "insert")
            /\ UNCHANGED <<orders, pager>>

\* lines 25-59: the handler served with no other request between its two store
\* calls
create_order(order, countOk, insertOk) ==
    /\ Len(orders) < MaxOrders
    /\ pending = EmptyBag
    /\ UNCHANGED <<products, nextPid, pending>>
    /\ IF Checked(order, countOk).stage # "checked"
       THEN /\ resp' = Checked(order, countOk)
            /\ UNCHANGED <<orders, pager>>
       ELSE IF insertOk
       THEN /\ orders' = Append(orders, Inserted(order))
            /\ resp' = Created(order)
            /\ pager' = Idle
       ELSE /\ resp' = CreateOrderFailure(order, 500, "InternalError", "insert")
            /\ UNCHANGED <<orders, pager>>

(***************************************************************************)
(* orders.py: get_user_orders, lines 87-114: the aggregation pipeline,     *)
(* one operator per stage.                                                 *)
(***************************************************************************)
Min(a, b) == IF a < b THEN a ELSE b

\* the permutations of a finite set, as sequences
Perms(S) ==
    {f \in [1..Cardinality(S) -> S] : \A x \in S : \E i \in DOMAIN f : f[i] = x}

\* {"$match": {"userId": user_id}}
Match(coll, user_id) == SelectSeq(coll, LAMBDA d : d.userId = user_id)

\* {"$unwind": "$items"}: one row per item, in item order
RECURSIVE UnwindItems(_)
UnwindItems(docs) ==
    IF docs = << >> THEN << >>
    ELSE [i \in 1..Len(Head(docs).items) |->
            [_id |-> Head(docs)._id, items |-> Head(docs).items[i]]]
         \o UnwindItems(Tail(docs))

\* a document of the products collection
ProductDoc(pid) ==
    [_id |-> pid, name |-> products[pid].name, price |-> products[pid].price]

\* Lookup as a left join: an item whose product is missing keeps a row, with an
\* empty product in place of the missing one
LookupKeepMissing(rows) ==
    [i \in 1..Len(rows) |->
        [_id |-> rows[i]._id, items |-> rows[i].items,
         productInfo |-> IF rows[i].items.productId \in DOMAIN products
                         THEN <<ProductDoc(rows[i].items.productId)>>
                         ELSE <<[_id |-> rows[i].items.productId, name |-> << >>,
                                 price |-> 0]>>]]

\* {"$lookup": {from: products, localField: items.productId, foreignField: _id}}
Lookup(rows) ==
    [i \in 1..Len(rows) |->
        [_id |-> rows[i]._id, items |-> rows[i].items,
         productInfo |-> IF rows[i].items.productId \in DOMAIN products
                         THEN <<ProductDoc(rows[i].items.productId)>>
                         ELSE << >>]]

\* {"$unwind": "$productInfo"}: a row whose productInfo is empty is dropped
RECURSIVE UnwindProductInfo(_)
UnwindProductInfo(rows) ==
    IF rows = << >> THEN << >>
    ELSE [i \in 1..Len(Head(rows).productInfo) |->
            [_id |-> Head(rows)._id, items |-> Head(rows).items,
             productInfo |-> Head(rows).productInfo[i]]]
         \o UnwindProductInfo(Tail(rows))

\* the rows that reach $group
Joined(user_id) == UnwindProductInfo(Lookup(UnwindItems(Match(orders, user_id))))

RECURSIVE SumSeq(_)
SumSeq(s) == IF s = << >> THEN 0 ELSE Head(s) + SumSeq(Tail(s))

\* LineAmount with the quantity left out of the product
LineAmountUnitPrice(row) == row.productInfo.price

\* {"$multiply": ["$items.qty", "$productInfo.price"]}
LineAmount(row) == row.items.qty * row.productInfo.price

\* the "$push" document of one row
PushedItem(row) ==
    [productDetails |-> [id |-> row.productInfo._id, name |-> row.productInfo.name],
     qty |-> row.items.qty]

\* {"$group": {_id: "$_id", total: {$sum: ...}, items: {$push: ...}}}.
\* $group emits its groups in no specified order: emit is the order chosen.
Group(rows, emit) ==
    [k \in 1..Len(emit) |->
        LET mine == SelectSeq(rows, LAMBDA r : r._id = emit[k])
        IN  [_id |-> emit[k],
             total |-> SumSeq([i \in 1..Len(mine) |-> LineAmount(mine[i])]),
             items |-> [i \in 1..Len(mine) |-> PushedItem(mine[i])]]]

\* the orders in which $group may emit
Emissions(user_id) ==
    LET rows == Joined(user_id) IN Perms({rows[i]._id : i \in 1..Len(rows)})

RECURSIVE Insert(_, _)
Insert(doc, sorted) ==
    IF sorted = << >> THEN <<doc>>
    ELSE IF doc._id < Head(sorted)._id THEN <<doc>> \o sorted
    ELSE <<Head(sorted)>> \o Insert(doc, Tail(sorted))

\* Sort with the $sort stage left out
SortOmitted(docs) == docs

\* {"$sort": {"_id": 1}}
RECURSIVE Sort(_)
Sort(docs) == IF docs = << >> THEN << >> ELSE Insert(Head(docs), Sort(Tail(docs)))

\* Skip with the $skip stage left out
SkipOmitted(docs, n) == docs

\* {"$skip": offset}
Skip(docs, n) == SubSeq(docs, n + 1, Len(docs))

\* {"$limit": limit}
Limit(docs, n) == SubSeq(docs, 1, Min(n, Len(docs)))

\* orders_collection.aggregate(pipeline)
Aggregate(user_id, limit, offset, emit) ==
    Limit(Skip(Sort(Group(Joined(user_id), emit)), offset), limit)

\* lines 117-123: the response model of one aggregated document
OrderListDetails(doc) ==
    [id |-> ObjectIdStr(doc._id),
     items |-> [i \in 1..Len(doc.items) |->
                  [productDetails |->
                      [id |-> ObjectIdStr(doc.items[i].productDetails.id),
                       name |-> doc.items[i].productDetails.name],
                   qty |-> doc.items[i].qty]],
     total |-> doc.total]

\* NextOffsetStr that tells a further page by the page not being empty
NextOffsetStrIfAny(offset, limit, count) ==
    IF count > 0 THEN Some(IntStr(offset + limit)) ELSE None

\* lines 125-126 (orders.py) and 91-92 (products.py)
NextOffsetStr(offset, limit, count) ==
    IF count = limit THEN Some(IntStr(offset + limit)) ELSE None

PrevOffsetStr(offset, limit) ==
    IF offset > 0 THEN Some(IntStr(offset - limit)) ELSE None

Page(offset, limit, count) ==
    [next |-> NextOffsetStr(offset, limit, count), limit |-> limit,
     offset |-> offset, previous |-> PrevOffsetStr(offset, limit)]

UserIdMaxLength == 100
LimitLe == 100

\* lines 62-66: the declared constraints of the path and query parameters
OrderQueryValid(user_id, limit, offset) ==
    /\ Len(user_id) >= 1
    /\ Len(user_id) <= UserIdMaxLength
    /\ limit >= 1
    /\ limit <= LimitLe
    /\ offset >= 0

OrdersFailure(status, error) ==
    [op |-> "get_user_orders", status |-> status, error |-> error]

\* lines 81-141: the response to GET /orders/{user_id}
OrdersResponse(user_id, limit, offset, storeOk, emit) ==
    LET args == [user_id |-> user_id, limit |-> limit, offset |-> offset]
        docs == Aggregate(Strip(user_id), limit, offset, emit)
        order_list == [i \in 1..Len(docs) |-> OrderListDetails(docs[i])]
    IN  IF ~OrderQueryValid(user_id, limit, offset)
        THEN OrdersFailure(422, "ValidationError")
        ELSE IF Strip(user_id) = << >>
        THEN OrdersFailure(400, "ValidationError")
        ELSE IF ~storeOk
        THEN OrdersFailure(500, "InternalError")
        ELSE [op |-> "get_user_orders", args |-> args, status |-> 200,
              error |-> "none", data |-> order_list,
              page |-> Page(offset, limit, Len(order_list))]

\* via: "client" for a call of the client's own, "repeat" for the last call
\* made again, "next" or "previous" for a call that follows a cursor
Served(r, via) ==
    IF r.status = 200
    THEN [op |-> r.op, args |-> r.args, status |-> r.status, error |-> r.error,
          data |-> r.data, page |-> r.page, via |-> via]
    ELSE [op |-> r.op, status |-> r.status, error |-> r.error, via |-> via]

get_user_orders(user_id, limit, offset, storeOk, via) ==
    /\ \E emit \in Emissions(Strip(user_id)) :
          resp' = Served(OrdersResponse(user_id, limit, offset, storeOk, emit), via)
    /\ UNCHANGED <<products, nextPid, orders, pending, pager>>

\* a client makes again the call it was last served
repeat_call(storeOk) ==
    /\ resp.op = "get_user_orders"
    /\ resp.status = 200
    /\ resp.via = "client"
    /\ get_user_orders(resp.args.user_id, resp.args.limit, resp.args.offset,
                       storeOk, "repeat")

\* the integer a decimal string denotes, as the query-parameter parser reads it
RECURSIVE ParseNat(_)
ParseNat(s) ==
    IF s = << >> THEN 0
    ELSE 10 * ParseNat(SubSeq(s, 1, Len(s) - 1))
         + (CHOOSE d \in 0..9 : DecDigits[d + 1] = s[Len(s)])

ParseInt(s) == IF Head(s) = "-" THEN 0 - ParseNat(Tail(s)) ELSE ParseNat(s)

\* a client follows the cursor `which` of the page it was last served: the same
\* user_id and limit, the cursor's value as offset
follow_cursor(which, storeOk) ==
    /\ resp.op = "get_user_orders"
    /\ resp.status = 200
    /\ resp.page[which] # None
    /\ ParseInt(resp.page[which][1]) <= MaxOffset + MaxLimit
    /\ get_user_orders(resp.args.user_id, resp.args.limit,
                       ParseInt(resp.page[which][1]), storeOk, which)

(***************************************************************************)
(* products.py: list_products                                              *)
(***************************************************************************)
LowerCase == <<"a", "b", "c", "d", "e", "f", "g", "h", "i", "j", "k", "l", "m",
               "n", "o", "p", "q", "r", "s", "t", "u", "v", "w", "x", "y", "z">>
UpperCase == <<"A", "B", "C", "D", "E", "F", "G", "H", "I", "J", "K", "L", "M",
               "N", "O", "P", "Q", "R", "S", "T", "U", "V", "W", "X", "Y", "Z">>

Lower(c) ==
    IF \E i \in 1..26 : UpperCase[i] = c
    THEN LowerCase[CHOOSE i \in 1..26 : UpperCase[i] = c]
    ELSE c

\* {"$regex": re.escape(name), "$options": "i"}: name occurs in text, case ignored
RegexSearch(name, text) ==
    \E k \in 0..(Len(text) - Len(name)) :
        \A i \in 1..Len(name) : Lower(text[k + i]) = Lower(name[i])

NameMaxLength == 100
SizeMaxLength == 20

\* lines 68-80: whether the product with _id pid matches the query built
QueryMatches(pid, name, size) ==
    /\ name # << >> => RegexSearch(Strip(name), products[pid].name)
    /\ size # << >> => \E i \in 1..Len(products[pid].sizes) :
                          products[pid].sizes[i].size = Strip(size)

ProductListDetails(pid) ==
    [id |-> ObjectIdStr(pid), name |-> products[pid].name, price |-> products[pid].price]

ProductsFailure(status, error) ==
    [op |-> "list_products", status |-> status, error |-> error]

\* lines 46-107; scan: the order in which find() returns the matching documents
\* (no sort is asked for)
list_products(name, size, limit, offset, storeOk) ==
    /\ UNCHANGED <<products, nextPid, orders, pending, pager>>
    /\ IF limit < 1 \/ offset < 0
       THEN resp' = ProductsFailure(422, "ValidationError")
       ELSE IF name # << >> /\ Len(Strip(name)) > NameMaxLength
       THEN resp' = ProductsFailure(400, "ValidationError")
       ELSE IF size # << >> /\ Len(Strip(size)) > SizeMaxLength
       THEN resp' = ProductsFailure(400, "ValidationError")
       ELSE IF ~storeOk
       THEN resp' = ProductsFailure(500, "InternalError")
       ELSE \E scan \in Perms({pid \in DOMAIN products : QueryMatches(pid, name, size)}) :
               LET found == Limit(Skip(scan, offset), limit)
                   product_list == [i \in 1..Len(found) |-> ProductListDetails(found[i])]
               IN  resp' = [op |-> "list_products", status |-> 200, error |-> "none",
                            data |-> product_list,
                            page |-> Page(offset, limit, Len(product_list))]

(***************************************************************************)
(* A client that reads one user's orders page by page: offsets 0, limit,   *)
(* 2*limit, ... until a page holds fewer than limit rows.  Any write to    *)
(* the store in between ends the reading (the writes set pager to Idle).   *)
(***************************************************************************)
PagerStart(user_id, limit) ==
    /\ pager.state # "paging"
    /\ pager' = [state |-> "paging", user_id |-> user_id, limit |-> limit,
                 offset |-> 0, pages |-> << >>]
    /\ UNCHANGED <<products, nextPid, orders, pending, resp>>

PagerFetch(storeOk) ==
    /\ pager.state = "paging"
    /\ \E emit \in Emissions(Strip(pager.user_id)) :
          LET r == OrdersResponse(pager.user_id, pager.limit, pager.offset, storeOk, emit)
          IN  /\ resp' = Served(r, "client")
              /\ pager' = IF r.status # 200 THEN Idle
                          ELSE [pager EXCEPT
                                  !.pages = Append(@, r.data),
                                  !.offset = @ + pager.limit,
                                  !.state = IF Len(r.data) < pager.limit
                                            THEN "done" ELSE "paging"]
    /\ UNCHANGED <<products, nextPid, orders, pending>>

(***************************************************************************)
(* The specification of the write path: the requests that write, served    *)
(* concurrently, and the writes made to the catalog from outside.          *)
(***************************************************************************)
Init ==
    /\ products = << >>
    /\ nextPid = 0
    /\ orders = << >>
    /\ pending = EmptyBag
    /\ resp = [op |-> "none", status |-> 0, error |-> "none"]
    /\ pager = Idle

CreateProduct == \E product \in ProductInputs, storeOk \in BOOLEAN :
                    create_product(product, storeOk)
ProductDeleted == \E pid \in ProductIds : DeleteProduct(pid)
ProductRepriced == \E pid \in ProductIds, price \in PriceInputs : SetPrice(pid, price)
CreateOrderCheck == \E order \in OrderInputs, storeOk \in BOOLEAN :
                       create_order_check(order, storeOk)
CreateOrderInsert == \E order \in OrderInputs, storeOk \in BOOLEAN :
                        create_order_insert(order, storeOk)

Next ==
    \/ CreateProduct
    \/ ProductDeleted
    \/ ProductRepriced
    \/ CreateOrderCheck
    \/ CreateOrderInsert

Spec == Init /\ [][Next]_vars

(***************************************************************************)
(* The specification of the order listing: the writes, each request served *)
(* whole and answered by the store, and clients calling                    *)
(* GET /orders/{user_id}.  (A listing reads the two collections only; the  *)
(* stores reached are those of Spec.)                                      *)
(***************************************************************************)
CreateProductUp == \E product \in ProductInputs : create_product(product, TRUE)
CreateOrderUp == \E order \in OrderInputs : create_order(order, TRUE, TRUE)

\* <<limit, offset>>: three windows that the declared constraints refuse
RefusedWindows == {<<0, 0>>, <<LimitLe + 1, 0>>, <<1, -1>>}

\* the smallest and the largest limit and offset within the bounds
ListWindows == ({1, MaxLimit} \X {0, MaxOffset}) \cup RefusedWindows

GetUserOrders == \E user_id \in {UserA, UserBlank}, w \in ListWindows :
                    get_user_orders(user_id, w[1], w[2], TRUE, "client")
GetUserOrdersStoreDown == get_user_orders(UserA, 1, 0, FALSE, "client")
RepeatCall == \E storeOk \in BOOLEAN : repeat_call(storeOk)

NextList ==
    \/ CreateProductUp
    \/ ProductDeleted
    \/ ProductRepriced
    \/ CreateOrderUp
    \/ GetUserOrders
    \/ GetUserOrdersStoreDown
    \/ RepeatCall

SpecList == Init /\ [][NextList]_vars

(***************************************************************************)
(* The specification of paginated reading.  Which orders a page holds does *)
(* not depend on prices, which stay as created here.                       *)
(***************************************************************************)
StartPaging == \E user_id \in {UserA, UserPaddedA}, limit \in 1..MaxLimit :
                  PagerStart(user_id, limit)
FetchPage == \E storeOk \in BOOLEAN : PagerFetch(storeOk)

NextPager ==
    \/ CreateProductUp
    \/ ProductDeleted
    \/ CreateOrderUp
    \/ StartPaging
    \/ FetchPage

SpecPager == Init /\ [][NextPager]_vars

(***************************************************************************)
(* The specification of the page cursors of both listings.                 *)
(***************************************************************************)
\* every window within the bounds, the refused ones, and the one of offset 5
\* and limit 10
CursorWindows ==
    ((1..MaxLimit) \X (0..MaxOffset)) \cup RefusedWindows \cup {<<10, 5>>}

LongName == [i \in 1..(NameMaxLength + 1) |-> "b"]
LongSize == [i \in 1..(SizeMaxLength + 1) |-> "S"]

\* <<name, size>>
ProductQueries ==
    {<<None, None>>, <<<<"B", " ">>, <<"S">>>>, <<LongName, None>>, <<None, LongSize>>}

GetUserOrdersAt == \E w \in CursorWindows :
                      get_user_orders(UserA, w[1], w[2], TRUE, "client")
ListProducts == \E q \in ProductQueries, w \in CursorWindows :
                   list_products(q[1], q[2], w[1], w[2], TRUE)
ListProductsStoreDown == list_products(None, None, 1, 0, FALSE)
FollowCursor == \E which \in {"next", "previous"}, storeOk \in BOOLEAN :
                   follow_cursor(which, storeOk)

NextCursor ==
    \/ CreateProductUp
    \/ ProductDeleted
    \/ CreateOrderUp
    \/ GetUserOrdersAt
    \/ ListProducts
    \/ ListProductsStoreDown
    \/ FollowCursor

SpecCursor == Init /\ [][NextCursor]_vars

(***************************************************************************)
(* Reference definitions the properties below are stated with.  They are   *)
(* written from the stored documents, not from the pipeline.               *)
(***************************************************************************)
Exists(pid) == pid \in DOMAIN products

\* the items of a stored order whose product exists now, in item order
Surviving(order) == SelectSeq(order.items, LAMBDA it : Exists(it.productId))

RECURSIVE ReferenceTotal(_)
ReferenceTotal(items) ==
    IF items = << >> THEN 0
    ELSE ReferenceTotal(SubSeq(items, 1, Len(items) - 1))
         + items[Len(items)].qty * products[items[Len(items)].productId].price

\* whether view is the view of the stored order: ids are read back with ObjectId()
IsReferenceView(view, order) ==
    LET live == Surviving(order)
    IN  /\ ObjectId(view.id) = order._id
        /\ Len(view.id) = ObjectIdHexLen
        /\ Len(view.items) = Len(live)
        /\ \A j \in 1..Len(live) :
              /\ ObjectId(view.items[j].productDetails.id) = live[j].productId
              /\ view.items[j].productDetails.name = products[live[j].productId].name
              /\ view.items[j].qty = live[j].qty
        /\ view.total = ReferenceTotal(live)

ListedOk == resp.op = "get_user_orders" /\ resp.status = 200

\* the _ids of the stored orders of user_id that keep at least one item
SurvivingIds(user_id) ==
    {orders[k]._id : k \in {j \in 1..Len(orders) :
                              /\ orders[j].userId = user_id
                              /\ Surviving(orders[j]) # << >>}}

\* a finite set of integers as the ascending sequence of its members
Ascending(S) == CHOOSE f \in Perms(S) : \A i, j \in 1..Len(f) : i < j => f[i] < f[j]

ViewIds(data) == [i \in 1..Len(data) |-> ObjectId(data[i].id)]

RECURSIVE Concat(_)
Concat(pages) == IF pages = << >> THEN << >> ELSE Head(pages) \o Concat(Tail(pages))

IsDecimalString(s) ==
    /\ s # << >>
    /\ LET digits == IF Head(s) = "-" THEN Tail(s) ELSE s
       IN  /\ digits # << >>
           /\ \A i \in 1..Len(digits) : \E d \in 1..10 : DecDigits[d] = digits[i]

(***************************************************************************)
(* C1.  Every order view that get_user_orders returns is the reference     *)
(* view of a stored order: its items are the order's items whose product   *)
(* exists now, in item order, each with the product's id and current name  *)
(* and the item's qty, and its total is the sum of qty x current price     *)
(* over exactly those items.                                               *)
(***************************************************************************)
C1_ViewsAreReferenceViews ==
    ListedOk =>
        \A i \in 1..Len(resp.data) :
            \E k \in 1..Len(orders) :
                /\ orders[k].userId = Strip(resp.args.user_id)
                /\ IsReferenceView(resp.data[i], orders[k])

\* a listed order of two items, the first of them a product repriced from 2 to 3
C1_Witness ==
    /\ ListedOk
    /\ \E i \in 1..Len(resp.data) :
          /\ Len(resp.data[i].items) = 2
          /\ resp.data[i].total = 2 * 3 + 1 * 2
    /\ \E pid \in DOMAIN products : products[pid].price = 3

C3_PagesAreSlices ==
    pager.state \in {"paging", "done"} =>
        LET ref == Ascending(SurvivingIds(Strip(pager.user_id)))
        IN  /\ \A k \in 1..Len(pager.pages) :
                  ViewIds(pager.pages[k]) =
                      SubSeq(ref, (k - 1) * pager.limit + 1,
                             Min(k * pager.limit, Len(ref)))
            /\ pager.state = "done" => ViewIds(Concat(pager.pages)) = ref

\* a reading that ended after more than one page and returned two orders
C3_Witness ==
    /\ pager.state = "done"
    /\ Len(pager.pages) >= 2
    /\ Len(Concat(pager.pages)) >= 2

(***************************************************************************)
(* C4.  create_order answers ReferentialError exactly when the number of   *)
(* distinct productIds of its items differs from the number of those       *)
(* products that exist; an order whose products all exist is accepted,     *)
(* also when two items name the same product.                              *)
(***************************************************************************)
C4_ReferentialErrorIffMissing ==
    (resp.op = "create_order" /\ (resp.error = "ReferentialError" \/ resp.stage = "checked"))
    => LET ids == {ObjectId(resp.req.items[i].productId) : i \in 1..Len(resp.req.items)}
       IN  (resp.error = "ReferentialError")
           <=> (Cardinality(ids) # Cardinality({p \in ids : Exists(p)}))

(***************************************************************************)
(* C5.  A create_order that ends in ValidationError, ReferentialError or   *)
(* InternalError at the existence check leaves both collections as they   *)
(* were; a successful one leaves the products alone and appends exactly    *)
(* one order, with the submitted userId and all submitted items.           *)
(***************************************************************************)
C5_FailedCreateWritesNothing ==
    [][/\ ( /\ resp'.op = "create_order"
            /\ \/ resp'.error \in {"ValidationError", "ReferentialError"}
               \/ resp'.error = "InternalError" /\ resp'.stage = "check" )
          => (orders' = orders /\ products' = products)
       /\ (resp'.op = "create_order" /\ resp'.status = 201)
          => /\ products' = products
             /\ Len(orders') = Len(orders) + 1
             /\ SubSeq(orders', 1, Len(orders)) = orders
             /\ LET new == orders'[Len(orders')]
                    req == resp'.req
                IN  /\ new.userId = req.userId
                    /\ Len(new.items) = Len(req.items)
                    /\ \A i \in 1..Len(req.items) :
                          /\ ObjectIdStr(new.items[i].productId) = req.items[i].productId
                          /\ new.items[i].qty = req.items[i].qty
                    /\ ObjectId(resp'.id) = new._id
      ]_vars

\* a create_order refused for a missing product while the store holds an order
C5_Witness ==
    /\ resp.op = "create_order"
    /\ resp.error = "ReferentialError"
    /\ Len(orders) >= 1
    /\ DOMAIN products # {}

(***************************************************************************)
(* C6.  An order created with userId u, all of whose products exist, is    *)
(* returned by get_user_orders called with the same u (here: in the page   *)
(* at offset 0 that is not full, which covers every order of the user).    *)
(***************************************************************************)
C6_CreatedOrderIsListed ==
    (ListedOk /\ resp.args.offset = 0 /\ Len(resp.data) < resp.args.limit)
    => \A k \in 1..Len(orders) :
          ( /\ orders[k].userId = resp.args.user_id
            /\ Len(Surviving(orders[k])) = Len(orders[k].items) )
          => \E i \in 1..Len(resp.data) : ObjectId(resp.data[i].id) = orders[k]._id

(***************************************************************************)
(* C7.  The cursors of both listings are those of                          *)
(* computeCursors(offset, limit, returnedCount): previous is present iff   *)
(* offset > 0 and is then the decimal string of offset - limit ("-5" for   *)
(* offset 5, limit 10); next is present iff the page holds exactly limit   *)
(* rows and is then the decimal string of offset + limit.                  *)
(***************************************************************************)
C7_CursorsAreComputed ==
    (resp.op \in {"get_user_orders", "list_products"} /\ resp.status = 200)
    => LET page == resp.page
       IN  /\ (page.previous # None) <=> (page.offset > 0)
           /\ page.previous # None
              => /\ IsDecimalString(page.previous[1])
                 /\ ParseInt(page.previous[1]) = page.offset - page.limit
           /\ (page.offset = 5 /\ page.limit = 10) => page.previous = Some(<<"-", "5">>)
           /\ (page.next # None) <=> (Len(resp.data) = page.limit)
           /\ page.next # None
              => /\ IsDecimalString(page.next[1])
                 /\ ParseInt(page.next[1]) = page.offset + page.limit

\* the last order of a user, alone in a full page: both cursors are present, and
\* next is although no further order exists
C7_Witness ==
    /\ ListedOk
    /\ resp.page.offset = 1
    /\ resp.page.limit = 1
    /\ Len(resp.data) = 1
    /\ Len(orders) = 2
    /\ ObjectId(resp.data[1].id) = 2
    /\ resp.page.next = Some(<<"2">>)
    /\ resp.page.previous = Some(<<"0">>)

(***************************************************************************)
(* C8.  At the moment an order is inserted, every one of its items'        *)
(* productId refers to a product that exists in the products collection.   *)
(***************************************************************************)
C8_ProductsExistAtInsert ==
    (resp.op = "create_order" /\ resp.status = 201)
    => \A i \in 1..Len(orders[Len(orders)].items) :
          Exists(orders[Len(orders)].items[i].productId)

(***************************************************************************)
(* C9.  get_user_orders is a pure, deterministic read: whatever its        *)
(* outcome it leaves both collections unchanged, and a call made again     *)
(* with the same arguments and no write in between returns the same data   *)
(* and the same page cursors.                                              *)
(***************************************************************************)
C9_ReadIsPureAndRepeatable ==
    [][/\ resp'.op = "get_user_orders" => (orders' = orders /\ products' = products)
       /\ (resp'.op = "get_user_orders" /\ resp'.via = "repeat" /\ resp'.status = 200)
          => (resp'.args = resp.args /\ resp'.data = resp.data /\ resp'.page = resp.page)
      ]_vars

\* a call for two orders, made again
C9_Witness ==
    /\ ListedOk
    /\ resp.via = "repeat"
    /\ Len(resp.data) >= 2

(***************************************************************************)
(* C10.  Every cursor get_user_orders returns can be followed: the call    *)
(* with the same user_id and limit and the cursor's value as offset is     *)
(* accepted by the offset constraint and does not end in a validation      *)
(* failure.                                                                *)
(***************************************************************************)
C10_CursorCanBeFollowed ==
    (resp.op = "get_user_orders" /\ resp.via \in {"next", "previous"})
    => resp.error # "ValidationError"

====
